---- MODULE Spec2Model ----
(***************************************************************************)
(* Tool Execution Pipeline of writers-toolkit-v2: token budget calculator  *)
(* (claude-api/client.js), streaming exchange, tool execute() skeletons    *)
(* (consistency-checker.js, tool-template.js, tool-general-template.js),   *)
(* report files and the cross-run file cache.                              *)
(***************************************************************************)
EXTENDS Integers, Sequences, FiniteSets, TLC

VARIABLES
    \* ---- process-wide state
    config,          \* ClaudeAPIService.config of the adapter bound to the tools
    currentProject,  \* appState.CURRENT_PROJECT_PATH
    clock,           \* latest reading of the wall clock (new Date()), in ticks
    disk,            \* files on disk: set of [path, empty], empty = has no content
    fileCache,       \* cache/file-cache: tool id -> sequence of paths
    \* ---- the run in progress (locals of execute and of what it calls)
    pc,              \* where the run is suspended (its pending await), or how it ended
    run,             \* [tool, check_type, skip_thinking, save_dir, saveDir] of the run
    checkIdx,        \* index of the loop over checkTypes
    promptTokens,    \* promptTokens of the prompt being processed (NoTokens before counting)
    tokenBudgets,    \* object returned by calculateTokenBudgets (NoBudget before)
    exch,            \* state of the current streaming exchange
    thinkingContent, \* let thinkingContent, appended to by the onThinking callback
    fullResponse,    \* let fullResponse, appended to by the onText callback
    baseFilename,    \* baseFilename computed by saveReport / saveResults
    savedFilePaths,  \* savedFilePaths of saveReport / saveResults
    outputFiles,     \* const outputFiles of execute
    returned,        \* the Result the run resolved with
    thrown,          \* the error the run rejected with
    emitted,         \* messages pushed through emitOutput by the run
    \* ---- what a spy on the adapter and on the file system records for the run
    streamCalls,     \* checkIdx of every streamWithThinking call of the run, in order
    lastRequest,     \* modelOptions of the latest client.beta.messages.stream call
    written,         \* paths written by the run, in order
    \* ---- the completion service's side of one exchange
    srcThinking,     \* thinking text the service generates
    srcText,         \* visible text the service generates
    sentThinking,    \* how much of srcThinking has been sent
    sentText,        \* how much of srcText has been sent
    \* ---- the tool system around the runs
    toolRegistry,    \* tools/registry: the entries [id, instance], in insertion order
    registerCalls,   \* the registerTool calls made so far, in order
    settings,        \* the settings object given to new ClaudeAPIService(settings)
    client,          \* this.client of the adapter (Null before it is created)
    rerun,           \* TRUE once executeToolById was called a second time
    producedBy,      \* tool id -> [paths, at]: the paths written by the latest finished
                     \* run of that id and the clock reading they were named with
    \* ---- what a spy on the cache and on the tools records for the run
    cacheCalls,      \* calls on fileCache made by the run, in order
    executeCalls,    \* the execute() calls made by the executeToolById call
    inputs,          \* the input files the run's readInputFile calls found, in order
    steps,           \* the steps of the run so far: [step, check, adapter], in order
    \* ---- the adapters of the tools
    adapterCount,    \* number of ClaudeAPIService instances constructed so far
    toolService,     \* tool instance -> the adapter its claudeService field refers to
    lastCall,        \* the latest initializeToolSystem / reinitializeClaudeService call
    \* ---- runs of one tool id that overlap in time
    runs             \* run number -> [pc, files]: the overlapping executions

globalVars == <<config, currentProject, clock, disk, fileCache>>
budgetVars == <<promptTokens, tokenBudgets>>
textVars == <<thinkingContent, fullResponse>>
saveVars == <<baseFilename, savedFilePaths, outputFiles>>
outcomeVars == <<returned, thrown, emitted>>
spyVars == <<streamCalls, lastRequest, written>>
serviceVars == <<srcThinking, srcText, sentThinking, sentText>>
systemVars == <<toolRegistry, registerCalls, settings, client, rerun, producedBy>>
callVars == <<cacheCalls, executeCalls, inputs>>
extVars == <<adapterCount, toolService, lastCall, runs>>
pipelineVars == <<pc, run, checkIdx, budgetVars, exch, textVars, saveVars,
                  outcomeVars, spyVars, serviceVars>>

vars == <<config, currentProject, clock, disk, fileCache,
          pc, run, checkIdx, promptTokens, tokenBudgets, exch,
          thinkingContent, fullResponse, baseFilename, savedFilePaths,
          outputFiles, returned, thrown, emitted,
          streamCalls, lastRequest, written,
          srcThinking, srcText, sentThinking, sentText,
          toolRegistry, registerCalls, settings, client, rerun, producedBy,
          cacheCalls, executeCalls, inputs, steps,
          adapterCount, toolService, lastCall, runs>>

NoTokens == 0 - 1
\* no initializeToolSystem / reinitializeClaudeService call was made yet
NoCall == [op |-> "none"]
NoBudget == [none |-> TRUE]

Min(a, b) == IF a < b THEN a ELSE b

\* ------------------------------------------------------------------------
\* Bounds
\* ------------------------------------------------------------------------
\* largest value of a numeric setting / prompt size in the small-scale
\* enumeration of the budget calculator
BudgetMax == 3

\* ------------------------------------------------------------------------
\* Configuration
\* ------------------------------------------------------------------------
\* defaults of the settings store (database.js) and of .env-less UI settings
DefaultConfig ==
    [context_window         |-> 200000,
     thinking_budget_tokens |-> 32000,
     betas_max_tokens       |-> 128000,
     desired_output_tokens  |-> 12000,
     max_thinking_budget    |-> 32000]

\* every configuration with small non-negative numeric fields
SmallConfigs ==
    [context_window         : 0..BudgetMax,
     thinking_budget_tokens : 0..BudgetMax,
     betas_max_tokens       : 0..BudgetMax,
     desired_output_tokens  : 0..BudgetMax,
     max_thinking_budget    : 0..BudgetMax]

\* prompt of the worked example in the token-limit notes
ExamplePromptTokens == 106448
\* the documented maximum manuscript size and minimum visible output
MaxManuscriptTokens == 164000
MinimumOutputTokens == 4000
\* the prompts the calculator is called with
BudgetPrompts == (0..BudgetMax) \cup {ExamplePromptTokens, MaxManuscriptTokens}

\* ------------------------------------------------------------------------
\* ClaudeAPIService.calculateTokenBudgets
\* ------------------------------------------------------------------------
\* a variant without the max_thinking_budget cap
calculateTokenBudgets_NoCap(cfg, pTokens) ==
    LET availableTokens == cfg.context_window - pTokens
        maxTokens == Min(availableTokens, cfg.betas_max_tokens)
        thinkingBudget == maxTokens - cfg.desired_output_tokens
    IN  [contextWindow            |-> cfg.context_window,
         promptTokens             |-> pTokens,
         availableTokens          |-> availableTokens,
         maxTokens                |-> maxTokens,
         thinkingBudget           |-> thinkingBudget,
         desiredOutputTokens      |-> cfg.desired_output_tokens,
         betasMaxTokens           |-> cfg.betas_max_tokens,
         configuredThinkingBudget |-> cfg.thinking_budget_tokens,
         capThinkingBudget        |-> thinkingBudget > cfg.max_thinking_budget,
         isPromptTooLarge         |-> thinkingBudget < cfg.thinking_budget_tokens]

\* a variant that clamps the tokens left after the prompt at zero
calculateTokenBudgets_Clamped(cfg, pTokens) ==
    LET availableTokens == IF cfg.context_window - pTokens < 0 THEN 0
                           ELSE cfg.context_window - pTokens
        maxTokens == Min(availableTokens, cfg.betas_max_tokens)
        thinkingBudget0 == maxTokens - cfg.desired_output_tokens
        capThinkingBudget == thinkingBudget0 > cfg.max_thinking_budget
        thinkingBudget == IF capThinkingBudget THEN cfg.max_thinking_budget
                                               ELSE thinkingBudget0
    IN  [contextWindow            |-> cfg.context_window,
         promptTokens             |-> pTokens,
         availableTokens          |-> availableTokens,
         maxTokens                |-> maxTokens,
         thinkingBudget           |-> thinkingBudget,
         desiredOutputTokens      |-> cfg.desired_output_tokens,
         betasMaxTokens           |-> cfg.betas_max_tokens,
         configuredThinkingBudget |-> cfg.thinking_budget_tokens,
         capThinkingBudget        |-> capThinkingBudget,
         isPromptTooLarge         |-> thinkingBudget < cfg.thinking_budget_tokens]

\* a variant that reports the cap already when the budget equals the limit
calculateTokenBudgets_CapAtEqual(cfg, pTokens) ==
    LET availableTokens == cfg.context_window - pTokens
        maxTokens == Min(availableTokens, cfg.betas_max_tokens)
        thinkingBudget0 == maxTokens - cfg.desired_output_tokens
        capThinkingBudget == thinkingBudget0 >= cfg.max_thinking_budget
        thinkingBudget == IF capThinkingBudget THEN cfg.max_thinking_budget
                                               ELSE thinkingBudget0
    IN  [contextWindow            |-> cfg.context_window,
         promptTokens             |-> pTokens,
         availableTokens          |-> availableTokens,
         maxTokens                |-> maxTokens,
         thinkingBudget           |-> thinkingBudget,
         desiredOutputTokens      |-> cfg.desired_output_tokens,
         betasMaxTokens           |-> cfg.betas_max_tokens,
         configuredThinkingBudget |-> cfg.thinking_budget_tokens,
         capThinkingBudget        |-> capThinkingBudget,
         isPromptTooLarge         |-> thinkingBudget < cfg.thinking_budget_tokens]

calculateTokenBudgets(cfg, pTokens) ==
    LET contextWindow == cfg.context_window
        desiredOutputTokens == cfg.desired_output_tokens
        configuredThinkingBudget == cfg.thinking_budget_tokens
        betasMaxTokens == cfg.betas_max_tokens
        maxThinkingBudget == cfg.max_thinking_budget
        \* Calculate available tokens after prompt
        availableTokens == contextWindow - pTokens
        \* For API call, max_tokens must respect the API limit
        maxTokens == Min(availableTokens, betasMaxTokens)
        thinkingBudget0 == maxTokens - desiredOutputTokens
        \* Cap thinking budget if it's too large
        capThinkingBudget == thinkingBudget0 > maxThinkingBudget
        thinkingBudget == IF capThinkingBudget THEN maxThinkingBudget
                                               ELSE thinkingBudget0
        \* Check if prompt is too large for the configured thinking budget
        isPromptTooLarge == thinkingBudget < configuredThinkingBudget
    IN  [contextWindow            |-> contextWindow,
         promptTokens             |-> pTokens,
         availableTokens          |-> availableTokens,
         maxTokens                |-> maxTokens,
         thinkingBudget           |-> thinkingBudget,
         desiredOutputTokens      |-> desiredOutputTokens,
         betasMaxTokens           |-> betasMaxTokens,
         configuredThinkingBudget |-> configuredThinkingBudget,
         capThinkingBudget        |-> capThinkingBudget,
         isPromptTooLarge         |-> isPromptTooLarge]

\* ------------------------------------------------------------------------
\* Values
\* ------------------------------------------------------------------------
Undefined == "<undefined>"
Null == "<null>"
\* JavaScript truthiness of an option or path value
Falsy(x) == x \in {Undefined, Null, ""}

ToolIds == {"consistency_checker", "template_tool", "generic_tool"}

\* the run's options object, as far as execute reads it
OptionSets ==
    [check_type    : {"world", "all"},
     skip_thinking : BOOLEAN,
     save_dir      : {Undefined, Null, "", "/out"}]

\* configurations the adapter of the pipeline is constructed with
RunConfigs ==
    {DefaultConfig, [DefaultConfig EXCEPT !.thinking_budget_tokens = 16000]}

\* token counts the completion service reports for prompts
TokenCounts == {ExamplePromptTokens, 160000, 250000}

\* characters of the texts the service streams; "#" is markup
Chars == {"a", "#"}

NoRun == [tool |-> "", check_type |-> "", skip_thinking |-> FALSE, save_dir |-> "",
          saveDir |-> ""]
NoResult == [success |-> FALSE, outputFiles |-> <<>>]
\* an Error object, as far as the pipeline reads it
Error(message) == [message |-> message]
NoError == Error("")
NoRequest == [none |-> TRUE]
NoBase == [name |-> "", ts |-> 0 - 1]

SystemPrompt == "CRITICAL INSTRUCTION: NO Markdown formatting of ANY kind."
GenericSystemPrompt == "NO Markdown! Never respond with Markdown formatting, plain text only."

\* ------------------------------------------------------------------------
\* BaseTool helpers and tool helpers
\* ------------------------------------------------------------------------
\* checkTypes of ConsistencyChecker.execute; the other tools make one pass
checkTypesOf(r) ==
    IF r.tool = "consistency_checker" /\ r.check_type = "all"
        THEN <<"world", "internal", "development", "unresolved">>
        ELSE IF r.tool = "consistency_checker" THEN <<r.check_type>>
        ELSE <<"main">>

\* path.join(saveDir, `${baseFilename}.txt`) and `${baseFilename}_thinking.txt`
reportPathOf(saveDir, base) ==
    [dir |-> saveDir, name |-> base.name, ts |-> base.ts, suffix |-> ".txt"]
thinkingPathOf(saveDir, base) ==
    [dir |-> saveDir, name |-> base.name, ts |-> base.ts, suffix |-> "_thinking.txt"]

\* the clock's resolution: ticks per second
TicksPerSecond == 2

\* a variant that keeps the date only
timestampOf_DateOnly(now) == 0
\* new Date().toISOString().replace(/[-:.]/g, '').substring(0, 15): the date
\* and time of day down to the second, fractions of a second cut off
timestampOf(now) == now \div TicksPerSecond

\* baseFilename of saveReport / saveResults (description '' and the default
\* prompt type and analysis level)
baseFilenameOf(r, type, now) ==
    [name |-> IF r.tool = "consistency_checker" THEN "consistency_" \o type
              ELSE IF r.tool = "template_tool" THEN "template_tool"
              ELSE "output",
     ts   |-> timestampOf(now)]

\* removeMarkdown: strips residual markup from the visible text
RECURSIVE removeMarkdown(_)
removeMarkdown(text) ==
    IF text = <<>> THEN <<>>
    ELSE IF Head(text) = "#" THEN removeMarkdown(Tail(text))
    ELSE <<Head(text)>> \o removeMarkdown(Tail(text))

\* an input document as fs.readFile finds it
InputFile(exists, readable, content) ==
    [exists |-> exists, readable |-> readable, content |-> content]
MissingFile == InputFile(FALSE, FALSE, <<>>)
UnreadableFile == InputFile(TRUE, FALSE, <<>>)
EmptyFile == InputFile(TRUE, TRUE, <<>>)
BlankFile == InputFile(TRUE, TRUE, <<" ">>)
TextFile == InputFile(TRUE, TRUE, <<"a">>)
InputFiles == {MissingFile, UnreadableFile, EmptyFile, BlankFile, TextFile}

\* fs.readFile(filePath, encoding): the content, or an error with a code
fsReadFile(f) ==
    IF ~f.exists THEN [code |-> "ENOENT", content |-> <<>>]
    ELSE IF ~f.readable THEN [code |-> "EACCES", content |-> <<>>]
    ELSE [code |-> "", content |-> f.content]

\* String.prototype.trim: white space cut off at both ends
RECURSIVE trimStart(_)
trimStart(text) ==
    IF text # <<>> /\ Head(text) = " " THEN trimStart(Tail(text)) ELSE text
RECURSIVE trimEnd(_)
trimEnd(text) ==
    IF text # <<>> /\ text[Len(text)] = " "
        THEN trimEnd(SubSeq(text, 1, Len(text) - 1)) ELSE text
trim(text) == trimEnd(trimStart(text))

\* a variant of readInputFile without the blank-content test
readInputFile_NoEmptyTest(f) ==
    IF fsReadFile(f).code = "ENOENT"
        THEN [error |-> Error("File not found"), content |-> <<>>]
    ELSE IF fsReadFile(f).code # ""
        THEN [error |-> Error(fsReadFile(f).code), content |-> <<>>]
    ELSE [error |-> NoError, content |-> fsReadFile(f).content]
\* BaseTool.readInputFile: what it returns (error = NoError) or throws
readInputFile(f) ==
    IF fsReadFile(f).code = "ENOENT"
        THEN [error |-> Error("File not found"), content |-> <<>>]
    ELSE IF fsReadFile(f).code # ""
        THEN [error |-> Error(fsReadFile(f).code), content |-> <<>>]
    ELSE IF trim(fsReadFile(f).content) = <<>>
        THEN [error |-> Error("File is empty"), content |-> <<>>]
    ELSE [error |-> NoError, content |-> fsReadFile(f).content]

\* the documents a run reads: manuscript and world file in ConsistencyChecker,
\* the manuscript or input file in the other tools
docsOf(r) == IF r.tool = "consistency_checker" THEN 2 ELSE 1

\* the readInputFile calls a run makes on the documents `files`: it stops
\* at the first one that throws
filesRead(files) ==
    IF \E k \in DOMAIN files : readInputFile(files[k]).error # NoError
        THEN SubSeq(files, 1, CHOOSE k \in DOMAIN files :
                                  /\ readInputFile(files[k]).error # NoError
                                  /\ \A j \in 1..(k - 1) :
                                         readInputFile(files[j]).error = NoError)
        ELSE files

\* the thinking file's content: a header, the thinking text, the stats block
thinkingFileContent(thinking) ==
    <<"=== AI'S THINKING PROCESS ===">> \o thinking \o <<"stats">>

\* BaseTool.writeOutputFile: fs.writeFile replaces the file at outputPath
writeOutputFile(files, path, content) ==
    {f \in files : f.path # path} \cup {[path |-> path, empty |-> content = <<>>]}

\* cache/file-cache
\* a variant of clear that empties every bucket
cacheClear_All(cache, id) == [t \in DOMAIN cache |-> <<>>]
cacheClear(cache, id) == [cache EXCEPT ![id] = <<>>]
cacheAddFile(cache, id, path) == [cache EXCEPT ![id] = Append(@, path)]
cacheGetFiles(cache, id) == cache[id]

\* tools/registry: the ids a caller may ask for, and a live tool instance
RegistryIds == ToolIds \cup {"unknown_tool"}
ToolInstance(name, n) == [name |-> name, n |-> n]
\* what getTool returns for an id without entry (null)
NoTool == ToolInstance("", 0)
\* a variant of registerTool that always adds an entry
registerTool_Append(registry, id, instance) ==
    Append(registry, [id |-> id, instance |-> instance])
\* registerTool(id, instance): the entry of id is replaced, or one is added
registerTool(registry, id, instance) ==
    IF \E i \in DOMAIN registry : registry[i].id = id
        THEN [i \in DOMAIN registry |->
                 IF registry[i].id = id THEN [id |-> id, instance |-> instance]
                 ELSE registry[i]]
        ELSE Append(registry, [id |-> id, instance |-> instance])
\* getTool(id): the instance of the first entry of id, or null
getTool(registry, id) ==
    IF \E i \in DOMAIN registry : registry[i].id = id
        THEN registry[CHOOSE i \in DOMAIN registry :
                          /\ registry[i].id = id
                          /\ \A j \in DOMAIN registry : registry[j].id = id => i <= j].instance
        ELSE NoTool
\* getAllToolIds(): the ids in registration order
getAllToolIds(registry) == [i \in DOMAIN registry |-> registry[i].id]

\* ------------------------------------------------------------------------
\* ClaudeAPIService.streamWithThinking
\* ------------------------------------------------------------------------
\* options object the tools pass to streamWithThinking
streamOptionsOf(r, budgets) ==
    [system     |-> IF r.tool = "generic_tool" THEN GenericSystemPrompt ELSE SystemPrompt,
     max_tokens |-> budgets.maxTokens,
     thinking   |-> [type |-> "enabled", budget_tokens |-> budgets.thinkingBudget]]

\* the earlier client (src/unnamed/part_000): max_tokens and the thinking
\* budget are taken from options when given
modelOptionsOf_FromOptions(cfg, options) ==
    [max_tokens |-> IF options.max_tokens = 0 THEN cfg.betas_max_tokens
                    ELSE options.max_tokens,
     thinking   |-> [type |-> "enabled",
                     budget_tokens |-> IF options.thinking.budget_tokens = 0
                                          THEN cfg.thinking_budget_tokens
                                          ELSE options.thinking.budget_tokens],
     system     |-> IF Falsy(options.system) THEN Undefined ELSE options.system]

\* modelOptions: only the system prompt is taken from options
modelOptionsOf(cfg, options) ==
    [max_tokens |-> cfg.betas_max_tokens,
     thinking   |-> [type |-> "enabled", budget_tokens |-> cfg.thinking_budget_tokens],
     system     |-> IF Falsy(options.system) THEN Undefined ELSE options.system]

\* (thinkingDelta) => { thinkingContent += thinkingDelta; }
onThinking(content, thinkingDelta) == content \o thinkingDelta

\* a variant that puts each delta in front of the text
onText_Prepend(response, textDelta) == textDelta \o response
\* (textDelta) => { fullResponse += textDelta; }
onText(response, textDelta) == response \o textDelta

\* events of the stream: content_block_delta with a thinking_delta or a
\* text_delta, and events of any other type
StreamEvent(type, delta) == [type |-> type, delta |-> delta]

\* body of the for-await loop: dispatch of one event to the callbacks
handleEvent(ev) ==
    /\ thinkingContent' = IF ev.type = "thinking_delta"
                              THEN onThinking(thinkingContent, ev.delta)
                              ELSE thinkingContent
    /\ fullResponse' = IF ev.type = "text_delta"
                           THEN onText(fullResponse, ev.delta)
                           ELSE fullResponse

\* ------------------------------------------------------------------------
\* More bounds
\* ------------------------------------------------------------------------
\* the latest reading of the wall clock, in ticks
MaxClock == 2
\* total characters one exchange streams in the pipeline specification
MaxText == 1
\* length of each of the two texts in the streaming specification
MaxLen == 3

\* all texts of at most n characters
TextsUpTo(n) == UNION {[1..k -> Chars] : k \in 0..n}

\* ------------------------------------------------------------------------
\* Token budget as each tool computes it
\* ------------------------------------------------------------------------
\* GenericTool.execute computes its own budget from this.config with defaults
genericBudgets(cfg, pTokens) ==
    LET contextWindow == IF cfg.context_window = 0 THEN 200000 ELSE cfg.context_window
        thinkingBudget == IF cfg.thinking_budget_tokens = 0 THEN 32000
                          ELSE cfg.thinking_budget_tokens
        desiredOutputTokens == IF cfg.desired_output_tokens = 0 THEN 12000
                               ELSE cfg.desired_output_tokens
        availableTokens == contextWindow - pTokens
        maxOutputTokens == Min(availableTokens, 128000)
        effectiveThinkingBudget == Min(thinkingBudget, maxOutputTokens - desiredOutputTokens)
    IN  [maxTokens        |-> maxOutputTokens,
         thinkingBudget   |-> effectiveThinkingBudget,
         isPromptTooLarge |-> effectiveThinkingBudget < 1000,
         generic          |-> TRUE]

\* ConsistencyChecker.execute and TemplateTool.processWithClaude call the
\* shared calculator of the adapter
budgetsOf(r, cfg, pTokens) ==
    IF r.tool = "generic_tool" THEN genericBudgets(cfg, pTokens)
    ELSE calculateTokenBudgets(cfg, pTokens)

\* a variant that never aborts
abortsRun_Never(budgets) == FALSE
\* if (tokenBudgets.isPromptTooLarge) { ...; throw new Error(...) }
abortsRun(budgets) == budgets.isPromptTooLarge

\* ------------------------------------------------------------------------
\* execute(options): one action per await of the run
\* ------------------------------------------------------------------------
\* const saveDir = options.save_dir || appState.CURRENT_PROJECT_PATH, and the
\* destructuring default of TemplateTool.execute
saveDirOf(t, o) ==
    IF t = "template_tool"
        THEN (IF o.save_dir = Undefined THEN currentProject ELSE o.save_dir)
        ELSE (IF Falsy(o.save_dir) THEN currentProject ELSE o.save_dir)

\* this.claudeService of the tool instance that executes the run
adapterOf(r) == toolService[getTool(toolRegistry, r.tool)]

\* one step of a run: a call served by an adapter, or a local step (adapter 0)
Step(name, check, adapter) == [step |-> name, check |-> check, adapter |-> adapter]

\* the budget step of a check: ConsistencyChecker and TemplateTool call the
\* adapter's calculator, GenericTool computes its budget inline
budgetSteps(r, check) ==
    IF r.tool = "generic_tool" THEN <<>>
    ELSE <<Step("calculateTokenBudgets", check, adapterOf(r))>>

\* fullResponse = this.removeMarkdown(fullResponse), absent from GenericTool
stripSteps(r, check) ==
    IF r.tool = "generic_tool" THEN <<>>
    ELSE <<Step("removeMarkdown", check, 0)>>

\* execute(options) up to its first await: cache clear, option extraction,
\* save directory validation, first readInputFile call
Execute(t, o) ==
    /\ run' = [tool          |-> t,
               check_type    |-> IF t = "consistency_checker" THEN o.check_type ELSE "main",
               skip_thinking |-> o.skip_thinking,
               save_dir      |-> o.save_dir,
               saveDir       |-> saveDirOf(t, o)]
    /\ fileCache' = IF t = "consistency_checker" THEN fileCache
                    ELSE cacheClear(fileCache, t)
    /\ cacheCalls' = IF t = "consistency_checker" THEN <<>>
                     ELSE <<[op |-> "clear", id |-> t]>>
    /\ inputs' = <<>>
    /\ steps' = <<>>
    /\ IF Falsy(saveDirOf(t, o))
          THEN /\ pc' = "rejected"
               /\ thrown' = IF t = "template_tool"
                               THEN Error("No save directory specified and no current project selected")
                               ELSE Error("No save directory available")
               /\ emitted' = IF t = "template_tool"
                                THEN {"Error: No save directory specified and no current project selected"}
                                ELSE {"Error: No save directory specified and no current project selected. Please select a project or specify a save directory."}
          ELSE /\ pc' = "reading"
               /\ thrown' = NoError
               /\ emitted' = {"Reading files..."}
    /\ checkIdx' = 0
    /\ promptTokens' = NoTokens
    /\ tokenBudgets' = NoBudget
    /\ exch' = "Idle"
    /\ thinkingContent' = <<>>
    /\ fullResponse' = <<>>
    /\ baseFilename' = NoBase
    /\ savedFilePaths' = <<>>
    /\ outputFiles' = <<>>
    /\ returned' = NoResult
    /\ streamCalls' = <<>>
    /\ lastRequest' = NoRequest
    /\ written' = <<>>
    /\ UNCHANGED <<config, currentProject, clock, disk, serviceVars,
                   toolRegistry, registerCalls, settings, client,
                   extVars>>

NoneProduced == [paths |-> {}, at |-> 0]

\* the paths of the latest finished run of each tool id, once the run in
\* progress is over
producedAfter(r, paths, produced) ==
    IF r.tool \in DOMAIN produced
        THEN [produced EXCEPT ![r.tool] =
                  [paths |-> {paths[i] : i \in DOMAIN paths}, at |-> clock]]
        ELSE produced

\* a variant that falls back to the first registered tool for an unknown id
Dispatch_Fallback(toolId, o) ==
    LET tool == IF getTool(toolRegistry, toolId) = NoTool
                    THEN toolRegistry[1].instance
                    ELSE getTool(toolRegistry, toolId)
    IN  /\ Execute(tool.name, o)
        /\ executeCalls' = <<[id |-> toolId, tool |-> tool.name, options |-> o]>>

\* executeToolById(toolId, options) up to its first await: registry lookup,
\* then tool.execute(options)
Dispatch(toolId, o) ==
    IF getTool(toolRegistry, toolId) = NoTool
        THEN /\ pc' = "rejected"
             /\ thrown' = Error("Tool not found: " \o toolId)
             /\ run' = NoRun
             /\ checkIdx' = 0
             /\ promptTokens' = NoTokens
             /\ tokenBudgets' = NoBudget
             /\ exch' = "Idle"
             /\ thinkingContent' = <<>>
             /\ fullResponse' = <<>>
             /\ baseFilename' = NoBase
             /\ savedFilePaths' = <<>>
             /\ outputFiles' = <<>>
             /\ returned' = NoResult
             /\ emitted' = {}
             /\ streamCalls' = <<>>
             /\ lastRequest' = NoRequest
             /\ written' = <<>>
             /\ cacheCalls' = <<>>
             /\ executeCalls' = <<>>
             /\ inputs' = <<>>
             /\ steps' = <<>>
             /\ UNCHANGED <<globalVars, serviceVars, toolRegistry, registerCalls, settings, client,
                   extVars>>
        ELSE /\ Execute(getTool(toolRegistry, toolId).name, o)
             /\ executeCalls' = <<[id      |-> toolId,
                                    tool    |-> getTool(toolRegistry, toolId).name,
                                    options |-> o]>>

\* the first executeToolById call of the process
executeToolById(toolId, o) ==
    /\ pc = "idle"
    /\ Dispatch(toolId, o)
    /\ UNCHANGED <<rerun, producedBy>>

\* a second executeToolById call, made after the first one has settled
executeToolByIdAgain(toolId, o) ==
    /\ pc \in {"resolved", "rejected"}
    /\ ~rerun
    /\ rerun' = TRUE
    /\ producedBy' = producedAfter(run, written, producedBy)
    /\ Dispatch(toolId, o)

\* the lists of one or two documents over a set of files
FileLists(fs) == {<<f>> : f \in fs} \cup {<<f, g>> : f \in fs, g \in fs}

\* the readInputFile calls (and, in TemplateTool, promptLoader.getPrompt)
\* finish; on success the prompt is built and countTokens(prompt) is called;
\* `files` are the documents as they are on disk, `template` tells whether
\* the prompt loader finds a template
ReadInputs(files, template) ==
    /\ pc = "reading"
    /\ Len(files) = docsOf(run)
    /\ ~template => run.tool = "template_tool"
    /\ inputs' = filesRead(files)
    /\ LET last == readInputFile(inputs'[Len(inputs')])
       IN  IF last.error = NoError /\ template
              THEN /\ pc' = "counting"
                   /\ checkIdx' = 1
                   /\ emitted' = emitted \cup {"Counting tokens in prompt..."}
                   /\ steps' = Append(steps, Step("countTokens(prompt)", 1, adapterOf(run)))
                   /\ UNCHANGED thrown
              ELSE /\ pc' = "rejected"
                   /\ thrown' = IF last.error # NoError THEN last.error
                                ELSE Error("No prompt template found")
                   /\ emitted' = emitted \cup {"Error: " \o thrown'.message}
                   /\ UNCHANGED <<checkIdx, steps>>
    /\ UNCHANGED <<globalVars, run, budgetVars, exch, textVars, saveVars,
                   returned, spyVars, serviceVars, systemVars, cacheCalls,
                   executeCalls,
                   extVars>>

\* the error a tool raises for a prompt that leaves too little budget
tooLargeError(r) ==
    IF r.tool = "generic_tool"
        THEN Error("Prompt is too large for thinking budget")
        ELSE Error("Prompt is too large for thinking budget - run aborted")

\* countTokens(prompt) resolves with n: budget, overflow check, and the
\* streamWithThinking call up to its await of client.beta.messages.stream
CountTokensReturns(n) ==
    /\ pc = "counting"
    /\ promptTokens' = n
    /\ tokenBudgets' = budgetsOf(run, config, n)
    /\ IF abortsRun(tokenBudgets')
          THEN /\ pc' = "rejected"
               /\ thrown' = tooLargeError(run)
               /\ emitted' = emitted \cup {"Token stats", "Run aborted!",
                                            "Error: " \o tooLargeError(run).message}
               /\ steps' = steps \o budgetSteps(run, checkIdx)
               /\ UNCHANGED <<exch, streamCalls, lastRequest>>
          ELSE /\ pc' = "requesting"
               /\ exch' = "Requesting"
               /\ streamCalls' = Append(streamCalls, checkIdx)
               /\ lastRequest' = modelOptionsOf(config, streamOptionsOf(run, tokenBudgets'))
               /\ emitted' = emitted \cup {"Token stats",
                                  "Sending request to Claude API (streaming)..."}
               /\ steps' = steps \o budgetSteps(run, checkIdx)
                             \o <<Step("streamWithThinking", checkIdx, adapterOf(run))>>
               /\ UNCHANGED thrown
    /\ UNCHANGED <<globalVars, run, checkIdx, textVars, saveVars, returned,
                   written, serviceVars, systemVars, callVars,
                   extVars>>

\* countTokens rejects (prompt or response): the error reaches execute's catch
CountTokensFails ==
    /\ pc \in {"counting", "countingResponse"}
    /\ pc' = "rejected"
    /\ thrown' = Error("RemoteCountError")
    /\ emitted' = emitted \cup {"Error: RemoteCountError"}
    /\ UNCHANGED <<globalVars, run, checkIdx, budgetVars, exch, textVars,
                   saveVars, returned, spyVars, serviceVars, systemVars, callVars,
                   steps, extVars>>

\* client.beta.messages.stream(modelOptions) resolves with the stream
StreamAccepted ==
    /\ pc = "requesting"
    /\ pc' = "streaming"
    /\ exch' = "Streaming"
    /\ UNCHANGED <<globalVars, run, checkIdx, budgetVars, textVars, saveVars,
                   outcomeVars, spyVars, serviceVars, systemVars, callVars,
                   steps, extVars>>

\* one event of the stream arrives
StreamDelivers(ev) ==
    /\ pc = "streaming"
    /\ Len(thinkingContent) + Len(fullResponse) + Len(ev.delta) <= MaxText
    /\ handleEvent(ev)
    /\ UNCHANGED <<globalVars, pc, run, checkIdx, budgetVars, exch, saveVars,
                   outcomeVars, spyVars, serviceVars, systemVars, callVars,
                   steps, extVars>>

\* the stream ends: elapsed time, word count, countTokens(fullResponse) called
StreamEnds ==
    /\ pc = "streaming"
    /\ pc' = "countingResponse"
    /\ exch' = "Completed"
    /\ emitted' = emitted \cup {"Completed in"}
    /\ steps' = steps \o <<Step("countWords", checkIdx, 0),
                            Step("countTokens(response)", checkIdx, adapterOf(run))>>
    /\ UNCHANGED <<globalVars, run, checkIdx, budgetVars, textVars, saveVars,
                   returned, thrown, spyVars, serviceVars, systemVars, callVars,
                   extVars>>

\* a variant that issues the request again after a failed stream
StreamFails_Retry ==
    /\ pc \in {"requesting", "streaming"}
    /\ pc' = "requesting"
    /\ exch' = "Requesting"
    /\ streamCalls' = Append(streamCalls, checkIdx)
    /\ emitted' = emitted \cup {"API Error: RemoteStreamError"}
    /\ UNCHANGED <<globalVars, run, checkIdx, budgetVars, textVars, saveVars,
                   returned, thrown, lastRequest, written, serviceVars, systemVars, callVars,
                   steps, extVars>>

\* a variant that goes on with the partial text after a failed stream
StreamFails_Swallow ==
    /\ pc \in {"requesting", "streaming"}
    /\ pc' = "countingResponse"
    /\ exch' = "Failed"
    /\ emitted' = emitted \cup {"API Error: RemoteStreamError"}
    /\ UNCHANGED <<globalVars, run, checkIdx, budgetVars, textVars, saveVars,
                   returned, thrown, spyVars, serviceVars, systemVars, callVars,
                   steps, extVars>>

\* the request or the stream fails: streamWithThinking rethrows, the tool's
\* inner catch emits and rethrows, execute's catch emits and rethrows
StreamFails ==
    /\ pc \in {"requesting", "streaming"}
    /\ pc' = "rejected"
    /\ exch' = "Failed"
    /\ thrown' = Error("RemoteStreamError")
    /\ emitted' = emitted \cup {"API Error: RemoteStreamError", "Error: RemoteStreamError"}
    /\ UNCHANGED <<globalVars, run, checkIdx, budgetVars, textVars, saveVars,
                   returned, spyVars, serviceVars, systemVars, callVars,
                   steps, extVars>>

\* countTokens(fullResponse) resolves: markup is stripped, saveReport /
\* saveResults reads the clock (now), names the files and calls
\* writeOutputFile for the report
CountResponseReturns(now) ==
    /\ pc = "countingResponse"
    /\ now >= clock
    /\ clock' = now
    /\ pc' = "writingReport"
    /\ fullResponse' = IF run.tool = "generic_tool" THEN fullResponse
                       ELSE removeMarkdown(fullResponse)
    /\ baseFilename' = baseFilenameOf(run, checkTypesOf(run)[checkIdx], now)
    /\ savedFilePaths' = <<>>
    /\ emitted' = emitted \cup {"Response token count"}
    /\ steps' = steps \o stripSteps(run, checkIdx)
                       \o <<Step("writeReport", checkIdx, 0)>>
    /\ UNCHANGED <<config, currentProject, disk, fileCache, run, checkIdx, budgetVars, exch, thinkingContent,
                   outputFiles, returned, thrown, spyVars, serviceVars, systemVars, callVars,
                   extVars>>

\* registerFilesWithCache: files.forEach(file => fileCache.addFile(this.name, file))
RECURSIVE registerFilesWithCache(_, _, _)
registerFilesWithCache(cache, id, files) ==
    IF files = <<>> THEN cache
    ELSE registerFilesWithCache(cacheAddFile(cache, id, Head(files)), id, Tail(files))

\* what saveReport / saveResults returns to execute
\* a variant that returns the paths in reverse order
savedResultOf_Reversed(r, paths) ==
    [i \in DOMAIN paths |-> paths[Len(paths) + 1 - i]]
savedResultOf(r, paths) ==
    IF r.tool = "generic_tool" THEN <<paths[1]>> ELSE paths

\* the cache update that follows the save in execute: TemplateTool registers
\* every file, GenericTool adds its report path, ConsistencyChecker none
cacheAfterSave(r, cache, files) ==
    IF r.tool = "template_tool" THEN registerFilesWithCache(cache, r.tool, files)
    ELSE IF r.tool = "generic_tool" THEN cacheAddFile(cache, r.tool, files[1])
    ELSE cache

\* the fileCache.addFile calls of that update, in order
cacheCallsAfterSave(r, files) ==
    IF r.tool = "template_tool"
        THEN [i \in 1..Len(files) |-> [op |-> "addFile", id |-> r.tool, path |-> files[i]]]
    ELSE IF r.tool = "generic_tool"
        THEN <<[op |-> "addFile", id |-> r.tool, path |-> files[1]]>>
    ELSE <<>>

\* saveReport / saveResults returns `paths`: execute records them and either
\* starts the next check type (ConsistencyChecker 'all') or returns the Result
AfterSave(paths) ==
    /\ outputFiles' = outputFiles \o savedResultOf(run, paths)
    /\ fileCache' = cacheAfterSave(run, fileCache, savedResultOf(run, paths))
    /\ cacheCalls' = cacheCalls \o cacheCallsAfterSave(run, savedResultOf(run, paths))
    /\ emitted' = emitted \cup {"Report saved to"}
    /\ IF checkIdx < Len(checkTypesOf(run))
          THEN /\ pc' = "counting"
               /\ checkIdx' = checkIdx + 1
               /\ promptTokens' = NoTokens
               /\ tokenBudgets' = NoBudget
               /\ exch' = "Idle"
               /\ thinkingContent' = <<>>
               /\ fullResponse' = <<>>
               /\ steps' = Append(steps, Step("countTokens(prompt)", checkIdx + 1,
                                              adapterOf(run)))
               /\ UNCHANGED returned
          ELSE /\ pc' = "resolved"
               /\ returned' = [success |-> TRUE, outputFiles |-> outputFiles']
               /\ UNCHANGED <<checkIdx, budgetVars, exch, textVars, steps>>

\* a variant that writes the thinking file whatever the thinking text
writesThinking_Always(r, thinking) == ~r.skip_thinking
\* if (thinking && !skipThinking)
writesThinking(r, thinking) == thinking # <<>> /\ ~r.skip_thinking

\* writeOutputFile(content, saveDir, reportFilename) resolves
WriteReportDone ==
    /\ pc = "writingReport"
    /\ disk' = writeOutputFile(disk, reportPathOf(run.saveDir, baseFilename), fullResponse)
    /\ written' = Append(written, reportPathOf(run.saveDir, baseFilename))
    /\ savedFilePaths' = <<reportPathOf(run.saveDir, baseFilename)>>
    /\ IF writesThinking(run, thinkingContent)
          THEN /\ pc' = "writingThinking"
               /\ steps' = Append(steps, Step("writeThinking", checkIdx, 0))
               /\ UNCHANGED <<fileCache, checkIdx, budgetVars, exch, textVars,
                              outputFiles, returned, emitted, cacheCalls>>
          ELSE AfterSave(savedFilePaths')
    /\ UNCHANGED <<config, currentProject, clock, run, baseFilename,
                   thrown, streamCalls, lastRequest, serviceVars, systemVars,
                   executeCalls, inputs,
                   extVars>>

\* writeOutputFile(thinkingContent, saveDir, thinkingFilename) resolves
WriteThinkingDone ==
    /\ pc = "writingThinking"
    /\ disk' = writeOutputFile(disk, thinkingPathOf(run.saveDir, baseFilename),
                               thinkingFileContent(thinkingContent))
    /\ written' = Append(written, thinkingPathOf(run.saveDir, baseFilename))
    /\ savedFilePaths' = Append(savedFilePaths, thinkingPathOf(run.saveDir, baseFilename))
    /\ AfterSave(savedFilePaths')
    /\ UNCHANGED <<config, currentProject, clock, run, baseFilename,
                   thrown, streamCalls, lastRequest, serviceVars, systemVars,
                   executeCalls, inputs,
                   extVars>>

\* fs.mkdir / fs.writeFile rejects: saveReport's catch emits and rethrows,
\* execute's catch emits and rethrows
WriteFails ==
    /\ pc \in {"writingReport", "writingThinking"}
    /\ pc' = "rejected"
    /\ thrown' = Error("WriteError")
    /\ emitted' = emitted \cup {"Error saving report: WriteError", "Error: WriteError"}
    /\ UNCHANGED <<globalVars, run, checkIdx, budgetVars, exch, textVars,
                   saveVars, returned, spyVars, serviceVars, systemVars, callVars,
                   steps, extVars>>

\* ------------------------------------------------------------------------
\* Specification of the pipeline: one execute() call of any tool
\* ------------------------------------------------------------------------
NoRunLocals ==
    /\ pc = "idle"
    /\ run = NoRun
    /\ checkIdx = 0
    /\ promptTokens = NoTokens
    /\ tokenBudgets = NoBudget
    /\ exch = "Idle"
    /\ thinkingContent = <<>>
    /\ fullResponse = <<>>
    /\ baseFilename = NoBase
    /\ savedFilePaths = <<>>
    /\ outputFiles = <<>>
    /\ returned = NoResult
    /\ thrown = NoError
    /\ emitted = {}
    /\ streamCalls = <<>>
    /\ lastRequest = NoRequest
    /\ written = <<>>

NoService ==
    /\ srcThinking = <<>>
    /\ srcText = <<>>
    /\ sentThinking = 0
    /\ sentText = 0

\* the tool system after initializeToolSystem: adapter constructed from the
\* settings, every tool registered once, no call made yet
SystemReady ==
    /\ toolRegistry = registerTool(registerTool(registerTool(<<>>,
                          "consistency_checker", ToolInstance("consistency_checker", 1)),
                          "template_tool", ToolInstance("template_tool", 1)),
                          "generic_tool", ToolInstance("generic_tool", 1))
    /\ adapterCount = 1
    /\ toolService = [instance \in {ToolInstance(t, 1) : t \in ToolIds} |-> 1]
    /\ registerCalls = <<>>
    /\ settings = config
    /\ client = "created"
    /\ rerun = FALSE
    /\ producedBy = [t \in ToolIds |-> NoneProduced]

NoCalls ==
    /\ cacheCalls = <<>>
    /\ executeCalls = <<>>
    /\ inputs = <<>>
    /\ steps = <<>>
    /\ lastCall = NoCall
    /\ runs = <<>>

Init ==
    /\ config \in RunConfigs
    /\ currentProject \in {Null, "/project"}
    /\ clock = 0
    /\ disk = {}
    /\ fileCache = [t \in ToolIds |-> <<>>]
    /\ NoRunLocals
    /\ NoService
    /\ SystemReady
    /\ NoCalls

Next ==
    \/ \E toolId \in RegistryIds, o \in OptionSets : executeToolById(toolId, o)
    \/ \E files \in FileLists(InputFiles), template \in BOOLEAN :
          ReadInputs(files, template)
    \/ \E n \in TokenCounts : CountTokensReturns(n)
    \/ CountTokensFails
    \/ StreamAccepted
    \/ \E type \in {"thinking_delta", "text_delta", "other"}, delta \in TextsUpTo(1) :
          StreamDelivers(StreamEvent(type, delta))
    \/ StreamEnds
    \/ StreamFails
    \/ \E now \in 0..MaxClock : CountResponseReturns(now)
    \/ WriteReportDone
    \/ WriteThinkingDone
    \/ WriteFails

Spec == Init /\ [][Next]_vars

\* ------------------------------------------------------------------------
\* Specification of sequential runs: two executeToolById calls, the second
\* made after the first has settled; prompts that fit, single check type
\* ------------------------------------------------------------------------
RunOptionSets ==
    [check_type    : {"world"},
     skip_thinking : BOOLEAN,
     save_dir      : {Undefined, "/out"}]

NextRuns ==
    \/ \E toolId \in RegistryIds, o \in RunOptionSets : executeToolById(toolId, o)
    \/ \E toolId \in RegistryIds, o \in RunOptionSets : executeToolByIdAgain(toolId, o)
    \/ \E files \in FileLists({TextFile, MissingFile}) : ReadInputs(files, TRUE)
    \/ \E n \in {ExamplePromptTokens, 250000} : CountTokensReturns(n)
    \/ StreamAccepted
    \/ \E type \in {"thinking_delta", "text_delta"} :
          StreamDelivers(StreamEvent(type, <<"a">>))
    \/ StreamEnds
    \/ StreamFails
    \/ \E now \in 0..MaxClock : CountResponseReturns(now)
    \/ WriteReportDone
    \/ WriteThinkingDone
    \/ WriteFails

SpecRuns == Init /\ [][NextRuns]_vars

\* ------------------------------------------------------------------------
\* Specification of the file cache alone: any sequence of clear and addFile
\* calls on the module-level cache
\* ------------------------------------------------------------------------
MaxCalls == 4

CachePaths ==
    {reportPathOf("/out", [name |-> "output", ts |-> 0]),
     thinkingPathOf("/out", [name |-> "output", ts |-> 0])}

CacheClear(id) ==
    /\ Len(cacheCalls) < MaxCalls
    /\ fileCache' = cacheClear(fileCache, id)
    /\ cacheCalls' = Append(cacheCalls, [op |-> "clear", id |-> id])
    /\ UNCHANGED <<config, currentProject, clock, disk, pipelineVars, systemVars,
                   executeCalls, inputs,
                   steps, extVars>>

CacheAddFile(id, path) ==
    /\ Len(cacheCalls) < MaxCalls
    /\ fileCache' = cacheAddFile(fileCache, id, path)
    /\ cacheCalls' = Append(cacheCalls, [op |-> "addFile", id |-> id, path |-> path])
    /\ UNCHANGED <<config, currentProject, clock, disk, pipelineVars, systemVars,
                   executeCalls, inputs,
                   steps, extVars>>

NextCache ==
    \/ \E id \in ToolIds : CacheClear(id)
    \/ \E id \in ToolIds, path \in CachePaths : CacheAddFile(id, path)

SpecCache == Init /\ [][NextCache]_vars

\* ------------------------------------------------------------------------
\* Specification of the registry alone: any sequence of registerTool calls
\* on the module-level registry, starting empty
\* ------------------------------------------------------------------------
MaxRegistrations == 3

InitRegistry ==
    /\ config = DefaultConfig
    /\ currentProject = Null
    /\ clock = 0
    /\ disk = {}
    /\ fileCache = [t \in ToolIds |-> <<>>]
    /\ NoRunLocals
    /\ NoService
    /\ NoCalls
    /\ toolRegistry = <<>>
    /\ adapterCount = 1
    /\ toolService = [instance \in {} |-> 1]
    /\ registerCalls = <<>>
    /\ settings = config
    /\ client = "created"
    /\ rerun = FALSE
    /\ producedBy = [t \in ToolIds |-> NoneProduced]

RegisterTool(id, instance) ==
    /\ Len(registerCalls) < MaxRegistrations
    /\ toolRegistry' = registerTool(toolRegistry, id, instance)
    /\ registerCalls' = Append(registerCalls, [id |-> id, instance |-> instance])
    /\ UNCHANGED <<globalVars, pipelineVars, callVars, settings, client, rerun,
                   producedBy,
                   steps, extVars>>

NextRegistry ==
    \E id \in RegistryIds, n \in 1..2 : RegisterTool(id, ToolInstance(id, n))

SpecRegistry == InitRegistry /\ [][NextRegistry]_vars

\* ------------------------------------------------------------------------
\* Specification of the adapter's construction: new ClaudeAPIService(settings)
\* for settings with any of the required values missing
\* ------------------------------------------------------------------------
\* requiredSettings of validateConfig, in its order
requiredSettings ==
    <<"max_retries", "request_timeout", "context_window", "thinking_budget_tokens",
      "betas_max_tokens", "desired_output_tokens", "model_name", "betas",
      "max_thinking_budget">>

\* a setting is absent (undefined), present but falsy, or present
SettingValues == {Undefined, "", "x"}
NoConfig == [none |-> TRUE]
NoClient == "none"

\* join(', ')
RECURSIVE join(_)
join(names) ==
    IF names = <<>> THEN ""
    ELSE IF Len(names) = 1 THEN names[1]
    ELSE names[1] \o ", " \o join(Tail(names))

\* a variant that reports the first missing setting only
RECURSIVE missingSettings_First(_, _)
missingSettings_First(cfg, names) ==
    IF names = <<>> THEN <<>>
    ELSE IF cfg[Head(names)] = Undefined THEN <<Head(names)>>
    ELSE missingSettings_First(cfg, Tail(names))
\* requiredSettings.filter(setting => config[setting] === undefined)
RECURSIVE missingSettings(_, _)
missingSettings(cfg, names) ==
    IF names = <<>> THEN <<>>
    ELSE IF cfg[Head(names)] = Undefined
        THEN <<Head(names)>> \o missingSettings(cfg, Tail(names))
    ELSE missingSettings(cfg, Tail(names))

\* validateConfig(config): the error it throws, or NoError
validateConfig(cfg) ==
    IF Len(missingSettings(cfg, requiredSettings)) > 0
        THEN Error("Missing required Claude API settings: "
                   \o join(missingSettings(cfg, requiredSettings))
                   \o ". Check API Settings configuration.")
        ELSE NoError

InitConfig ==
    /\ settings \in [{requiredSettings[i] : i \in DOMAIN requiredSettings} -> SettingValues]
    /\ config = NoConfig
    /\ client = NoClient
    /\ currentProject = Null
    /\ clock = 0
    /\ disk = {}
    /\ fileCache = [t \in ToolIds |-> <<>>]
    /\ NoRunLocals
    /\ NoService
    /\ NoCalls
    /\ toolRegistry = <<>>
    /\ adapterCount = 0
    /\ toolService = [instance \in {} |-> 1]
    /\ registerCalls = <<>>
    /\ rerun = FALSE
    /\ producedBy = [t \in ToolIds |-> NoneProduced]

\* new ClaudeAPIService(settings): validation, then the configuration is
\* stored and the API client created
Construct ==
    /\ client = NoClient
    /\ thrown = NoError
    /\ IF validateConfig(settings) # NoError
          THEN /\ thrown' = validateConfig(settings)
               /\ UNCHANGED <<config, client>>
          ELSE /\ config' = settings
               /\ client' = "created"
               /\ UNCHANGED thrown
    /\ UNCHANGED <<currentProject, clock, disk, fileCache, pc, run, checkIdx,
                   budgetVars, exch, textVars, saveVars, returned, emitted, spyVars,
                   serviceVars, toolRegistry, registerCalls, settings, rerun,
                   producedBy, callVars,
                   steps, extVars>>

NextConfig == Construct

SpecConfig == InitConfig /\ [][NextConfig]_vars

\* the numeric settings of the adapter, and the values a settings object may
\* carry for them: absent, null, a negative number, a non-negative number
numericSettings ==
    {"max_retries", "request_timeout", "context_window", "thinking_budget_tokens",
     "betas_max_tokens", "desired_output_tokens", "max_thinking_budget"}
NegativeNumber == "-1"
NumericValues == {Undefined, Null, NegativeNumber, "12000"}

\* settings objects with every kind of value in the numeric fields
InitNumericConfig ==
    /\ settings \in {s \in [{requiredSettings[i] : i \in DOMAIN requiredSettings}
                                -> NumericValues \cup {"x"}] :
                        /\ \A name \in numericSettings : s[name] \in NumericValues
                        /\ s["model_name"] = "x"
                        /\ s["betas"] = "x"}
    /\ config = NoConfig
    /\ client = NoClient
    /\ currentProject = Null
    /\ clock = 0
    /\ disk = {}
    /\ fileCache = [t \in ToolIds |-> <<>>]
    /\ NoRunLocals
    /\ NoService
    /\ NoCalls
    /\ toolRegistry = <<>>
    /\ adapterCount = 0
    /\ toolService = [instance \in {} |-> 1]
    /\ registerCalls = <<>>
    /\ rerun = FALSE
    /\ producedBy = [t \in ToolIds |-> NoneProduced]

SpecNumericConfig == InitNumericConfig /\ [][NextConfig]_vars

\* ------------------------------------------------------------------------
\* Specification of the tool system: initializeToolSystem and
\* reinitializeClaudeService calls in any order, the database's tools
\* changing between the calls
\* ------------------------------------------------------------------------
MaxAdapters == 3

\* a settings object: which settings are given, and the values of the budget
\* settings the adapter computes with
Settings(given, values) == [given |-> given, values |-> values]
AllGiven == [i \in {requiredSettings[j] : j \in DOMAIN requiredSettings} |-> "x"]
SystemSettings ==
    {Settings(AllGiven, c) : c \in RunConfigs}
    \cup {Settings([AllGiven EXCEPT !["betas"] = Undefined], DefaultConfig)}

\* database.getTools(): the tool names in the store, known to the dispatch
\* chain of initializeToolSystem or not
DbTools == SUBSET {"consistency_checker", "template_tool", "unknown_tool"}

\* dbTools.forEach: each tool the chain knows is registered with a new
\* instance bound to claudeService
RECURSIVE registerAll(_, _, _)
registerAll(registry, names, n) ==
    IF names = {} THEN registry
    ELSE LET name == CHOOSE x \in names : TRUE
         IN  registerAll(IF name \in ToolIds
                             THEN registerTool(registry, name, ToolInstance(name, n))
                             ELSE registry,
                         names \ {name}, n)

\* the instances in the registry
registeredInstances(registry) == {registry[i].instance : i \in DOMAIN registry}

\* the call as a spy on the module sees it
Call(op, s, before, registered, threw) ==
    [op |-> op, given |-> s.given, before |-> before, registered |-> registered,
     threw |-> threw]

\* initializeToolSystem(settings, database) with dbTools in the store
InitializeToolSystem(s, dbTools) ==
    /\ adapterCount < MaxAdapters
    /\ IF validateConfig(s.given) # NoError
          THEN /\ lastCall' = Call("initializeToolSystem", s,
                                    {toolRegistry[i].id : i \in DOMAIN toolRegistry}, {}, TRUE)
               /\ UNCHANGED <<config, settings, adapterCount, toolRegistry, toolService>>
          ELSE /\ adapterCount' = adapterCount + 1
               /\ config' = s.values
               /\ settings' = s.values
               /\ toolRegistry' = registerAll(toolRegistry, dbTools, adapterCount')
               /\ toolService' =
                      [instance \in DOMAIN toolService
                                        \cup {ToolInstance(t, adapterCount') : t \in dbTools \cap ToolIds} |->
                          IF instance \in DOMAIN toolService THEN toolService[instance]
                          ELSE adapterCount']
               /\ lastCall' = Call("initializeToolSystem", s,
                                    {toolRegistry[i].id : i \in DOMAIN toolRegistry},
                                    dbTools \cap ToolIds, FALSE)
    /\ UNCHANGED <<currentProject, clock, disk, fileCache, pipelineVars, callVars,
                   steps, registerCalls, client, rerun, producedBy, runs>>

\* a variant that swaps the adapter of the tools before the settings are validated
ReinitializeClaudeService_Unchecked(s) ==
    /\ adapterCount < MaxAdapters
    /\ adapterCount' = adapterCount + 1
    /\ config' = s.values
    /\ settings' = s.values
    /\ toolService' = [instance \in DOMAIN toolService |->
                          IF instance \in registeredInstances(toolRegistry)
                              THEN adapterCount' ELSE toolService[instance]]
    /\ lastCall' = Call("reinitializeClaudeService", s,
                         {toolRegistry[i].id : i \in DOMAIN toolRegistry}, {},
                         validateConfig(s.given) # NoError)
    /\ UNCHANGED <<currentProject, clock, disk, fileCache, pipelineVars, callVars,
                   steps, toolRegistry, registerCalls, client, rerun, producedBy, runs>>

\* reinitializeClaudeService(settings): a new adapter, then
\* tool.claudeService = claudeService for every registered tool
ReinitializeClaudeService(s) ==
    /\ adapterCount < MaxAdapters
    /\ IF validateConfig(s.given) # NoError
          THEN /\ lastCall' = Call("reinitializeClaudeService", s,
                                    {toolRegistry[i].id : i \in DOMAIN toolRegistry}, {}, TRUE)
               /\ UNCHANGED <<config, settings, adapterCount, toolService>>
          ELSE /\ adapterCount' = adapterCount + 1
               /\ config' = s.values
               /\ settings' = s.values
               /\ toolService' = [instance \in DOMAIN toolService |->
                                     IF instance \in registeredInstances(toolRegistry)
                                         THEN adapterCount' ELSE toolService[instance]]
               /\ lastCall' = Call("reinitializeClaudeService", s,
                                    {toolRegistry[i].id : i \in DOMAIN toolRegistry}, {}, FALSE)
    /\ UNCHANGED <<currentProject, clock, disk, fileCache, pipelineVars, callVars,
                   steps, toolRegistry, registerCalls, client, rerun, producedBy, runs>>

\* the process before the first initializeToolSystem call
InitSystem ==
    /\ config = DefaultConfig
    /\ currentProject = Null
    /\ clock = 0
    /\ disk = {}
    /\ fileCache = [t \in ToolIds |-> <<>>]
    /\ NoRunLocals
    /\ NoService
    /\ NoCalls
    /\ toolRegistry = <<>>
    /\ adapterCount = 0
    /\ toolService = [instance \in {} |-> 1]
    /\ registerCalls = <<>>
    /\ settings = config
    /\ client = "created"
    /\ rerun = FALSE
    /\ producedBy = [t \in ToolIds |-> NoneProduced]

NextSystem ==
    \/ \E s \in SystemSettings, dbTools \in DbTools : InitializeToolSystem(s, dbTools)
    \/ \E s \in SystemSettings : ReinitializeClaudeService(s)

SpecSystem == InitSystem /\ [][NextSystem]_vars

\* ------------------------------------------------------------------------
\* Specification of a run with the settings saved meanwhile: one
\* executeToolById call, reinitializeClaudeService called at any of its awaits
\* ------------------------------------------------------------------------
NextReinit ==
    \/ \E toolId \in {"consistency_checker", "template_tool"} :
          executeToolById(toolId, [check_type |-> "world", skip_thinking |-> FALSE,
                                   save_dir |-> "/out"])
    \/ \E s \in SystemSettings : ReinitializeClaudeService(s)
    \/ \E files \in FileLists({TextFile}) : ReadInputs(files, TRUE)
    \/ \E n \in {ExamplePromptTokens, MaxManuscriptTokens} : CountTokensReturns(n)
    \/ CountTokensFails
    \/ StreamAccepted
    \/ \E type \in {"thinking_delta", "text_delta"} :
          StreamDelivers(StreamEvent(type, <<"a">>))
    \/ StreamEnds
    \/ StreamFails
    \/ \E now \in 0..MaxClock : CountResponseReturns(now)
    \/ WriteReportDone
    \/ WriteThinkingDone
    \/ WriteFails

SpecReinit == Init /\ [][NextReinit]_vars

\* ------------------------------------------------------------------------
\* Specification of overlapping runs: execute() calls that start while
\* earlier ones are suspended at an await, each reduced to its cache and
\* file effects
\* ------------------------------------------------------------------------
MaxRuns == 2

\* the stages of a run between its awaits
nextStage(stage) ==
    IF stage = "counting" THEN "streaming" ELSE "writing"

activeRuns(t) ==
    {k \in DOMAIN runs : runs[k].tool = t /\ runs[k].pc \notin {"resolved", "rejected"}}

\* the report and thinking paths of run number k of tool t
runPaths(t, k) ==
    <<reportPathOf("/out", [name |-> t, ts |-> k]),
      thinkingPathOf("/out", [name |-> t, ts |-> k])>>

\* execute(options) of tool t starts: the cache clear (if the tool has one)
\* and everything up to the first await
RunStarts(t) ==
    /\ Len(runs) < MaxRuns
    /\ fileCache' = IF t = "consistency_checker" THEN fileCache
                    ELSE cacheClear(fileCache, t)
    /\ runs' = Append(runs, [tool |-> t, pc |-> "counting", outputFiles |-> <<>>,
                             alone |-> activeRuns(t) = {}])
    /\ UNCHANGED <<config, currentProject, clock, disk, pipelineVars, systemVars,
                   callVars, steps, adapterCount, toolService, lastCall>>

\* an await of run k resolves and the run goes on to its next await
RunAdvances(k) ==
    /\ k \in DOMAIN runs
    /\ runs[k].pc \in {"counting", "streaming"}
    /\ runs' = [runs EXCEPT ![k].pc = nextStage(runs[k].pc)]
    /\ UNCHANGED <<globalVars, pipelineVars, systemVars, callVars, steps,
                   adapterCount, toolService, lastCall>>

\* the writes of run k are done: the paths are recorded in the cache as the
\* tool does it, and the Result is returned
RunFinishes(k) ==
    /\ k \in DOMAIN runs
    /\ runs[k].pc = "writing"
    /\ disk' = writeOutputFile(writeOutputFile(disk, runPaths(runs[k].tool, k)[1], <<"a">>),
                               runPaths(runs[k].tool, k)[2], <<"a">>)
    /\ fileCache' = cacheAfterSave(runs[k], fileCache,
                                   savedResultOf(runs[k], runPaths(runs[k].tool, k)))
    /\ runs' = [runs EXCEPT ![k].pc = "resolved",
                            ![k].outputFiles = savedResultOf(runs[k], runPaths(runs[k].tool, k))]
    /\ UNCHANGED <<config, currentProject, clock, pipelineVars, systemVars,
                   callVars, steps, adapterCount, toolService, lastCall>>

\* an await of run k rejects: execute's catch emits and rethrows
RunFails(k) ==
    /\ k \in DOMAIN runs
    /\ runs[k].pc \in {"counting", "streaming", "writing"}
    /\ runs' = [runs EXCEPT ![k].pc = "rejected"]
    /\ UNCHANGED <<globalVars, pipelineVars, systemVars, callVars, steps,
                   adapterCount, toolService, lastCall>>

NextConcurrent ==
    \/ \E t \in ToolIds : RunStarts(t)
    \/ \E k \in 1..MaxRuns : RunAdvances(k)
    \/ \E k \in 1..MaxRuns : RunFinishes(k)
    \/ \E k \in 1..MaxRuns : RunFails(k)

SpecConcurrent == Init /\ [][NextConcurrent]_vars

\* ------------------------------------------------------------------------
\* Specification of the calculator alone: inputs drawn from bounded sets
\* ------------------------------------------------------------------------
InitBudget ==
    /\ config \in SmallConfigs \cup {DefaultConfig}
    /\ currentProject = Null
    /\ clock = 0
    /\ disk = {}
    /\ fileCache = [t \in ToolIds |-> <<>>]
    /\ pc = "idle"
    /\ run = NoRun
    /\ checkIdx = 0
    /\ promptTokens \in BudgetPrompts
    /\ tokenBudgets = NoBudget
    /\ exch = "Idle"
    /\ thinkingContent = <<>>
    /\ fullResponse = <<>>
    /\ baseFilename = NoBase
    /\ savedFilePaths = <<>>
    /\ outputFiles = <<>>
    /\ returned = NoResult
    /\ thrown = NoError
    /\ emitted = {}
    /\ streamCalls = <<>>
    /\ lastRequest = NoRequest
    /\ written = <<>>
    /\ NoService
    /\ SystemReady
    /\ NoCalls

\* one call of calculateTokenBudgets(promptTokens)
Calculate ==
    /\ tokenBudgets = NoBudget
    /\ tokenBudgets' = calculateTokenBudgets(config, promptTokens)
    /\ UNCHANGED <<globalVars, pc, run, checkIdx, promptTokens, exch, textVars,
                   saveVars, outcomeVars, spyVars, serviceVars, systemVars, callVars,
                   steps, extVars>>

\* the budget is discarded after the call; the next prompt is budgeted afresh
NextPrompt ==
    /\ tokenBudgets # NoBudget
    /\ promptTokens' \in BudgetPrompts
    /\ tokenBudgets' = NoBudget
    /\ UNCHANGED <<globalVars, pc, run, checkIdx, exch, textVars,
                   saveVars, outcomeVars, spyVars, serviceVars, systemVars, callVars,
                   steps, extVars>>

NextBudget == Calculate \/ NextPrompt

SpecBudget == InitBudget /\ [][NextBudget]_vars

\* ------------------------------------------------------------------------
\* Specification of one streaming exchange: the service generates two texts
\* and sends them as deltas, split and interleaved in any way
\* ------------------------------------------------------------------------
StreamingRun ==
    [tool |-> "consistency_checker", check_type |-> "world",
     skip_thinking |-> FALSE, save_dir |-> Undefined, saveDir |-> "/project"]

\* the run is suspended in the for-await loop of streamWithThinking
InitStream ==
    /\ config = DefaultConfig
    /\ currentProject = "/project"
    /\ clock = 0
    /\ disk = {}
    /\ fileCache = [t \in ToolIds |-> <<>>]
    /\ pc = "streaming"
    /\ run = StreamingRun
    /\ checkIdx = 1
    /\ promptTokens = ExamplePromptTokens
    /\ tokenBudgets = calculateTokenBudgets(DefaultConfig, ExamplePromptTokens)
    /\ exch = "Streaming"
    /\ thinkingContent = <<>>
    /\ fullResponse = <<>>
    /\ baseFilename = NoBase
    /\ savedFilePaths = <<>>
    /\ outputFiles = <<>>
    /\ returned = NoResult
    /\ thrown = NoError
    /\ emitted = {"Reading files...", "Counting tokens in prompt...", "Token stats",
                  "Sending request to Claude API (streaming)..."}
    /\ streamCalls = <<1>>
    /\ lastRequest = modelOptionsOf(DefaultConfig, streamOptionsOf(StreamingRun, tokenBudgets))
    /\ written = <<>>
    /\ srcThinking \in TextsUpTo(MaxLen)
    /\ srcText \in TextsUpTo(MaxLen)
    /\ sentThinking = 0
    /\ sentText = 0
    /\ SystemReady
    /\ cacheCalls = <<>>
    /\ executeCalls = <<[id      |-> StreamingRun.tool,
                          tool    |-> StreamingRun.tool,
                          options |-> [check_type    |-> StreamingRun.check_type,
                                       skip_thinking |-> StreamingRun.skip_thinking,
                                       save_dir      |-> StreamingRun.save_dir]]>>
    /\ inputs = <<TextFile, TextFile>>
    /\ steps = <<Step("countTokens(prompt)", 1, 1), Step("calculateTokenBudgets", 1, 1),
                 Step("streamWithThinking", 1, 1)>>
    /\ lastCall = NoCall
    /\ runs = <<>>

\* the service sends the next k characters of its thinking text as one delta
ServiceSendsThinking(k) ==
    /\ pc = "streaming"
    /\ sentThinking + k <= Len(srcThinking)
    /\ handleEvent(StreamEvent("thinking_delta",
                               SubSeq(srcThinking, sentThinking + 1, sentThinking + k)))
    /\ sentThinking' = sentThinking + k
    /\ UNCHANGED <<globalVars, pc, run, checkIdx, budgetVars, exch, saveVars,
                   outcomeVars, spyVars, srcThinking, srcText, sentText,
                   systemVars, callVars,
                   steps, extVars>>

\* the service sends the next k characters of its visible text as one delta
ServiceSendsText(k) ==
    /\ pc = "streaming"
    /\ sentText + k <= Len(srcText)
    /\ handleEvent(StreamEvent("text_delta", SubSeq(srcText, sentText + 1, sentText + k)))
    /\ sentText' = sentText + k
    /\ UNCHANGED <<globalVars, pc, run, checkIdx, budgetVars, exch, saveVars,
                   outcomeVars, spyVars, srcThinking, srcText, sentThinking,
                   systemVars, callVars,
                   steps, extVars>>

\* the service sends an event that is no content_block_delta
ServiceSendsOther ==
    /\ pc = "streaming"
    /\ handleEvent(StreamEvent("message_start", <<>>))
    /\ UNCHANGED <<globalVars, pc, run, checkIdx, budgetVars, exch, saveVars,
                   outcomeVars, spyVars, serviceVars, systemVars, callVars,
                   steps, extVars>>

\* the service has sent both texts and ends the stream
ServiceEndsStream ==
    /\ sentThinking = Len(srcThinking)
    /\ sentText = Len(srcText)
    /\ StreamEnds

NextStream ==
    \/ \E k \in 0..MaxLen : ServiceSendsThinking(k)
    \/ \E k \in 0..MaxLen : ServiceSendsText(k)
    \/ ServiceSendsOther
    \/ ServiceEndsStream

SpecStream == InitStream /\ [][NextStream]_vars

\* ------------------------------------------------------------------------
\* Properties
\* ------------------------------------------------------------------------
Range(seq) == {seq[i] : i \in DOMAIN seq}

\* the tools whose budget comes from calculateTokenBudgets
usesCalculator(r) == r.tool \in {"consistency_checker", "template_tool"}

\* calculateTokenBudgets reported isPromptTooLarge for the current prompt
flaggedTooLarge ==
    /\ usesCalculator(run)
    /\ tokenBudgets # NoBudget
    /\ tokenBudgets.isPromptTooLarge

singleCheckRun == run # NoRun /\ Len(checkTypesOf(run)) = 1

reportsWritten == {i \in DOMAIN written : written[i].suffix = ".txt"}
thinkingWritten == {i \in DOMAIN written : written[i].suffix = "_thinking.txt"}

\* C1 as claimed: once calculateTokenBudgets reports isPromptTooLarge for a
\* prompt of a run, the run rejects and no streamWithThinking call was made
\* at any point of that run.
C1_NoStreamInWholeRun ==
    flaggedTooLarge => (pc = "rejected" /\ streamCalls = <<>>)

\* C1 amended: once calculateTokenBudgets reports isPromptTooLarge for a
\* prompt of a run, the run rejects with the too-large error and no
\* streamWithThinking call is made for that prompt or any later one: the
\* stream calls of the run are exactly those of the check types before it.
C1_NoStreamFromOversizedPrompt ==
    flaggedTooLarge =>
        /\ pc = "rejected"
        /\ thrown = Error("Prompt is too large for thinking budget - run aborted")
        /\ Len(streamCalls) = checkIdx - 1
        /\ \A i \in DOMAIN streamCalls : streamCalls[i] = i

C1_Witness ==
    /\ flaggedTooLarge
    /\ run.check_type = "all"
    /\ checkIdx = 3
    /\ streamCalls = <<1, 2>>
    /\ pc = "rejected"

\* C2: every streaming request that is issued carries a thinking budget of
\* at least the configured thinking_budget_tokens.
C2_ThinkingFloor ==
    lastRequest # NoRequest =>
        lastRequest.thinking.budget_tokens >= config.thinking_budget_tokens

C2_Witness ==
    /\ pc = "streaming"
    /\ lastRequest # NoRequest
    /\ tokenBudgets.thinkingBudget < config.thinking_budget_tokens

\* C3: for promptTokens >= 0 and non-negative numeric settings, the budget
\* has maxTokens <= betas_max_tokens and thinkingBudget <= max_thinking_budget.
C3_BudgetCaps ==
    tokenBudgets # NoBudget =>
        /\ tokenBudgets.maxTokens <= config.betas_max_tokens
        /\ tokenBudgets.thinkingBudget <= config.max_thinking_budget

C3_Witness ==
    /\ tokenBudgets # NoBudget
    /\ tokenBudgets.capThinkingBudget
    /\ tokenBudgets.availableTokens > config.betas_max_tokens
    /\ tokenBudgets.maxTokens = config.betas_max_tokens

C5_RequestCarriesBudget ==
    pc \in {"requesting", "streaming"} =>
        /\ lastRequest.max_tokens = tokenBudgets.maxTokens
        /\ lastRequest.thinking.budget_tokens = tokenBudgets.thinkingBudget
        /\ lastRequest.system # Undefined
        /\ promptTokens + lastRequest.max_tokens <= config.context_window

\* C6: deltas are appended in arrival order: whatever the splitting and the
\* interleaving, the accumulated texts are the prefixes sent so far and, at
\* stream end, exactly the two texts the service generated.
C6_OrderPreserving ==
    /\ thinkingContent = SubSeq(srcThinking, 1, sentThinking)
    /\ fullResponse = SubSeq(srcText, 1, sentText)
    /\ exch = "Completed" => (thinkingContent = srcThinking /\ fullResponse = srcText)

C6_Witness ==
    /\ exch = "Completed"
    /\ thinkingContent = <<"a", "#", "a">>
    /\ fullResponse = <<"#", "a">>

ExchangeEdges ==
    {<<"Idle", "Requesting">>, <<"Requesting", "Streaming">>,
     <<"Streaming", "Completed">>, <<"Requesting", "Failed">>,
     <<"Streaming", "Failed">>}

ExchangeStep ==
    /\ (checkIdx' = checkIdx /\ exch' # exch) => <<exch, exch'>> \in ExchangeEdges
    /\ checkIdx' # checkIdx => exch' = "Idle"
    /\ streamCalls' # streamCalls =>
           (exch = "Idle" /\ exch' = "Requesting" /\ streamCalls' = Append(streamCalls, checkIdx))
    /\ exch = "Failed" => (exch' = "Failed" /\ pc' = "rejected")

OneCallPerPrompt ==
    /\ \A i, j \in DOMAIN streamCalls : streamCalls[i] = streamCalls[j] => i = j
    /\ exch = "Failed" => pc = "rejected"

\* C7: an exchange only moves Idle -> Requesting -> Streaming -> Completed,
\* or from Requesting or Streaming to Failed; Completed and Failed are
\* terminal; a prompt gets at most one streamWithThinking call, and after a
\* failure the run is rejected: no second call, no resumed stream.
C7_ExchangeLifecycle == []OneCallPerPrompt /\ [][ExchangeStep]_vars

C7_Witness ==
    /\ exch = "Failed"
    /\ pc = "rejected"
    /\ thinkingContent # <<>>
    /\ streamCalls = <<1>>

C10_CacheEqualsOutputFiles ==
    pc = "resolved" =>
        /\ cacheGetFiles(fileCache, run.tool) = returned.outputFiles
        /\ Range(written) \subseteq Range(cacheGetFiles(fileCache, run.tool))

\* paths written by the most recent run of tool id t
latestProduced(t) == IF run.tool = t THEN Range(written) ELSE producedBy[t].paths

\* C11 as claimed: every run of a tool clears that tool id's cache bucket as
\* its first step (before save-directory validation, reads and adapter
\* calls), so getFiles(id) never holds a path produced by a run of that id
\* other than the most recent one, also when the most recent run failed.
C11_ClearsBucketFirst ==
    /\ run # NoRun =>
           (cacheCalls # <<>> /\ cacheCalls[1] = [op |-> "clear", id |-> run.tool])
    /\ \A t \in ToolIds : Range(cacheGetFiles(fileCache, t)) \subseteq latestProduced(t)

CacheStep ==
    cacheCalls' # cacheCalls =>
        LET c == cacheCalls'[Len(cacheCalls')]
        IN  /\ \A j \in ToolIds \ {c.id} :
                   cacheGetFiles(fileCache', j) = cacheGetFiles(fileCache, j)
            /\ c.op = "clear" => cacheGetFiles(fileCache', c.id) = <<>>
            /\ c.op = "addFile" =>
                   cacheGetFiles(fileCache', c.id)
                       = Append(cacheGetFiles(fileCache, c.id), c.path)
            /\ (/\ c.op = "addFile"
                /\ cacheCalls # <<>>
                /\ cacheCalls[Len(cacheCalls)] = [op |-> "clear", id |-> c.id])
                   => cacheGetFiles(fileCache', c.id) = <<c.path>>

\* C12: from any prior cache state, clear(id) then addFile(id, p) yields
\* getFiles(id) = [p]; clear and addFile on id leave every other id's
\* bucket unchanged; between clears a bucket only grows, at its end.
C12_CacheFrame == [][CacheStep]_vars

C12_Witness ==
    /\ Len(cacheCalls) = 4
    /\ cacheCalls[1].op = "addFile" /\ cacheCalls[1].id = "template_tool"
    /\ cacheCalls[2].op = "addFile" /\ cacheCalls[2].id = "generic_tool"
    /\ cacheCalls[3] = [op |-> "clear", id |-> "template_tool"]
    /\ cacheCalls[4].op = "addFile" /\ cacheCalls[4].id = "template_tool"
    /\ cacheGetFiles(fileCache, "template_tool") = <<cacheCalls[4].path>>
    /\ cacheGetFiles(fileCache, "generic_tool") = <<cacheCalls[2].path>>

\* the registerTool calls made for id
registrationsOf(id) == {i \in DOMAIN registerCalls : registerCalls[i].id = id}

\* C13: registerTool overwrites silently: the registry holds exactly one
\* entry for each id registered (however often), getTool(id) returns the
\* instance of the last registration of id, whatever was registered for
\* other ids, and getTool of an id never registered returns null.
C13_RegistryOverwrite ==
    \A id \in RegistryIds :
        /\ Cardinality({i \in DOMAIN toolRegistry : toolRegistry[i].id = id})
               = (IF registrationsOf(id) = {} THEN 0 ELSE 1)
        /\ getTool(toolRegistry, id) =
               (IF registrationsOf(id) = {} THEN NoTool
                ELSE registerCalls[CHOOSE i \in registrationsOf(id) :
                                       \A j \in registrationsOf(id) : j <= i].instance)

C13_Witness ==
    /\ Len(registerCalls) = 3
    /\ registerCalls[1].id = "template_tool"
    /\ registerCalls[2].id = "generic_tool"
    /\ registerCalls[3].id = "template_tool"
    /\ registerCalls[3].instance # registerCalls[1].instance
    /\ getTool(toolRegistry, "template_tool") = registerCalls[3].instance
    /\ getTool(toolRegistry, "generic_tool") = registerCalls[2].instance
    /\ getTool(toolRegistry, "unknown_tool") = NoTool
    /\ Len(toolRegistry) = 2

\* the run in progress is a second run of tool id t that has named its
\* files, after an earlier run of t that wrote files
reranAfter(t) ==
    /\ rerun
    /\ run.tool = t
    /\ written # <<>>
    /\ producedBy[t].paths # {}

\* the paths of the run are those of its save directory, kind and clock reading
namedByInputs ==
    \A i \in DOMAIN written :
        LET base == baseFilenameOf(run, checkTypesOf(run)[checkIdx], clock)
        IN  written[i] \in {reportPathOf(run.saveDir, base),
                            thinkingPathOf(run.saveDir, base)}

\* C14 as claimed: the base filename is a function of kind, variant,
\* description and timestamp only, and a re-run with the same kind, variant
\* and description at any later time yields different paths, so it never
\* collides with or overwrites the earlier run's report or thinking file.
C14_LaterRunNeverCollides ==
    \A t \in ToolIds :
        reranAfter(t) =>
            /\ namedByInputs
            /\ clock > producedBy[t].at => Range(written) \cap producedBy[t].paths = {}

\* C14 amended: the base filename is a function of kind, variant,
\* description and the clock reading cut to the second; a re-run whose
\* timestamp is a later second (or whose save directory differs) yields
\* paths different from the earlier run's, and a re-run into the same
\* directory within the same second yields the same report path and
\* overwrites the earlier report.
C14_LaterSecondNeverCollides ==
    \A t \in ToolIds :
        reranAfter(t) =>
            /\ namedByInputs
            /\ clock \div TicksPerSecond > producedBy[t].at \div TicksPerSecond
                   => Range(written) \cap producedBy[t].paths = {}
            /\ (/\ clock \div TicksPerSecond = producedBy[t].at \div TicksPerSecond
                /\ \E p \in producedBy[t].paths : p.dir = run.saveDir)
                   => written[1] \in producedBy[t].paths

C14_Witness ==
    /\ reranAfter("generic_tool")
    /\ pc = "resolved"
    /\ clock > producedBy["generic_tool"].at
    /\ clock \div TicksPerSecond = producedBy["generic_tool"].at \div TicksPerSecond
    /\ written[1] \in producedBy["generic_tool"].paths

\* every thinking file of a list directly follows its own report
reportThenThinking(files) ==
    \A i \in DOMAIN files :
        IF files[i].suffix = ".txt"
            THEN \A j \in DOMAIN files : files[j] = files[i] => j = i
            ELSE i > 1 /\ files[i - 1] = [files[i] EXCEPT !.suffix = ".txt"]

isReport(f) == f.suffix = ".txt"

\* the base names of the reports of a list, in order
reportNames(files) ==
    [i \in DOMAIN SelectSeq(files, isReport) |-> SelectSeq(files, isReport)[i].name]

\* C15: the report assembler's paths and Result.outputFiles list each
\* primary report first and then its thinking file when one is listed; the
\* primary file is written before its thinking file; in a ConsistencyChecker
\* 'all' run the groups come in the order world, internal, development,
\* unresolved.
C15_ReportBeforeThinking ==
    /\ reportThenThinking(written)
    /\ reportThenThinking(savedFilePaths)
    /\ reportThenThinking(outputFiles)
    /\ pc = "resolved" =>
           /\ returned.outputFiles = outputFiles
           /\ reportNames(returned.outputFiles)
                  = [i \in DOMAIN checkTypesOf(run) |->
                         baseFilenameOf(run, checkTypesOf(run)[i], 0).name]
           /\ run.tool # "generic_tool" => returned.outputFiles = written

C15_Witness ==
    /\ pc = "resolved"
    /\ run.check_type = "all"
    /\ Len(returned.outputFiles) = 6
    /\ reportNames(returned.outputFiles)
           = <<"consistency_world", "consistency_internal",
               "consistency_development", "consistency_unresolved">>
    /\ ~isReport(returned.outputFiles[2])
    /\ ~isReport(returned.outputFiles[6])

\* the errors execute raises for a missing save directory
NoSaveDirErrors ==
    {Error("No save directory available"),
     Error("No save directory specified and no current project selected")}

\* the save directory a run is to use: the option when given, else the
\* current project path
resolvedSaveDir(r) == IF Falsy(r.save_dir) THEN currentProject ELSE r.save_dir

\* C16 as claimed: a run uses the save_dir option when one is given and the
\* current project path otherwise (option undefined, null or ''); it
\* rejects for a missing save directory only when neither is available, and
\* then before any file is read or written and before any countTokens or
\* streamWithThinking call.
C16_SaveDirResolution ==
    run # NoRun =>
        /\ run.saveDir = resolvedSaveDir(run)
        /\ thrown \in NoSaveDirErrors <=> Falsy(resolvedSaveDir(run))
        /\ Falsy(resolvedSaveDir(run)) =>
               /\ pc = "rejected"
               /\ "Reading files..." \notin emitted
               /\ promptTokens = NoTokens
               /\ streamCalls = <<>>
               /\ written = <<>>

\* the run has called countTokens or streamWithThinking
adapterCalled ==
    \/ "Counting tokens in prompt..." \in emitted
    \/ promptTokens # NoTokens
    \/ streamCalls # <<>>

\* C17: readInputFile returns content only for an existing file with
\* non-blank content; a missing file always fails with 'File not found' and
\* an existing empty or white-space-only file with 'File is empty', never
\* the other one; in both cases the run rejects before any countTokens or
\* streamWithThinking call.
C17_MissingAndEmptyInputs ==
    /\ \A i \in DOMAIN inputs :
           /\ ~inputs[i].exists =>
                  (i = Len(inputs) /\ pc = "rejected" /\ ~adapterCalled
                   /\ thrown = Error("File not found"))
           /\ (inputs[i].exists /\ inputs[i].readable /\ inputs[i].content \in {<<>>, <<" ">>}) =>
                  (i = Len(inputs) /\ pc = "rejected" /\ ~adapterCalled
                   /\ thrown = Error("File is empty"))
    /\ thrown = Error("File not found") =>
           (inputs # <<>> /\ ~inputs[Len(inputs)].exists)
    /\ thrown = Error("File is empty") =>
           (inputs # <<>> /\ inputs[Len(inputs)].exists /\ inputs[Len(inputs)].readable)
    /\ adapterCalled =>
           /\ Len(inputs) = docsOf(run)
           /\ \A i \in DOMAIN inputs :
                  /\ inputs[i].exists
                  /\ \E k \in DOMAIN inputs[i].content : inputs[i].content[k] # " "

C17_Witness ==
    /\ run.tool = "consistency_checker"
    /\ inputs = <<TextFile, BlankFile>>
    /\ pc = "rejected"
    /\ thrown = Error("File is empty")

\* the plain-text messages by which a run announces the error e
announcementsOf(e) ==
    {"Error: " \o e.message, "API Error: " \o e.message}
    \cup (IF e \in NoSaveDirErrors
             THEN {"Error: No save directory specified and no current project selected. Please select a project or specify a save directory."}
             ELSE {})

\* C18 as claimed: no error is swallowed and every error is announced: for
\* every failing executeToolById call (unresolved tool id, missing save
\* directory, missing or empty input, budget overflow, countTokens failure,
\* stream failure, file-write failure) a message for that error has been
\* pushed through emitOutput when the promise rejects, the error reaches
\* the caller and there is no success Result.
C18_EveryErrorAnnounced ==
    pc = "rejected" =>
        /\ thrown # NoError
        /\ returned = NoResult
        /\ emitted \cap announcementsOf(thrown) # {}

\* the constructor has run
constructed == client # NoClient \/ thrown # NoError

isAbsent(name) == settings[name] = Undefined

\* C19: constructing the adapter succeeds if and only if every one of the
\* nine required settings is present; otherwise it fails with one error
\* that names exactly the missing settings (all of them), and no
\* configuration is stored and no API client created.
C19_ConstructionValidatesSettings ==
    constructed =>
        /\ Len(requiredSettings) = 9
        /\ client = "created" <=> (\A name \in DOMAIN settings : settings[name] # Undefined)
        /\ client = "created" => (thrown = NoError /\ config = settings)
        /\ client # "created" =>
               /\ config = NoConfig
               /\ client = NoClient
               /\ thrown = Error("Missing required Claude API settings: "
                                 \o join(SelectSeq(requiredSettings, isAbsent))
                                 \o ". Check API Settings configuration.")

C19_Witness ==
    /\ constructed
    /\ settings["request_timeout"] = ""
    /\ thrown = Error("Missing required Claude API settings: max_retries, betas. Check API Settings configuration.")
    /\ config = NoConfig

\* the ids with an entry in the registry
registeredIds == {toolRegistry[i].id : i \in DOMAIN toolRegistry}

\* the instances registered under an id
instancesOf(id) ==
    {toolRegistry[i].instance : i \in {j \in DOMAIN toolRegistry : toolRegistry[j].id = id}}

\* an executeToolById call is made in this step
callStep == pc \in {"idle", "resolved", "rejected"} /\ vars' # vars

\* the call resolves no tool: it rejects, and nothing else changes
rejectsUnknown ==
    /\ pc' = "rejected"
    /\ returned' = NoResult
    /\ \E id \in RegistryIds \ registeredIds : thrown' = Error("Tool not found: " \o id)
    /\ cacheCalls' = <<>>
    /\ toolRegistry' = toolRegistry
    /\ fileCache' = fileCache
    /\ disk' = disk

\* the call invokes execute(options) of the tool registered under the id, once
executesRegistered ==
    /\ Len(executeCalls') = 1
    /\ executeCalls'[1].id \in registeredIds
    /\ instancesOf(executeCalls'[1].id) = {ToolInstance(executeCalls'[1].tool, 1)}
    /\ run'.tool = executeCalls'[1].tool
    /\ run'.save_dir = executeCalls'[1].options.save_dir
    /\ run'.skip_thinking = executeCalls'[1].options.skip_thinking
    /\ run'.tool = "consistency_checker" =>
           run'.check_type = executeCalls'[1].options.check_type
    /\ toolRegistry' = toolRegistry

dispatchStep ==
    callStep => IF executeCalls' = <<>> THEN rejectsUnknown ELSE executesRegistered

\* what the call settles with once execute was invoked
settlesWithToolOutcome ==
    executeCalls # <<>> =>
        /\ Len(executeCalls) = 1
        /\ pc = "resolved" => (returned # NoResult /\ thrown = NoError)
        /\ pc = "rejected" =>
               /\ returned = NoResult
               /\ thrown # NoError
               /\ \A id \in RegistryIds : thrown # Error("Tool not found: " \o id)

\* C20: executeToolById with an id that is not registered rejects with
\* 'Tool not found', invokes no tool's execute and leaves the registry and
\* the file cache as they were; with a registered id it invokes execute of
\* exactly that tool once with the given options and settles with that
\* call's Result or error, without a retry.
C20_DispatchByRegistry == [][dispatchStep]_vars /\ []settlesWithToolOutcome

C20_Witness ==
    /\ rerun
    /\ pc = "rejected"
    /\ executeCalls = <<>>
    /\ thrown = Error("Tool not found: unknown_tool")
    /\ fileCache["template_tool"] # <<>>
    /\ producedBy["template_tool"].paths # {}

\* C23: the full thinking budget has priority over visible output: when
\* the tokens left after the prompt cannot hold thinking budget + desired
\* output but can hold thinking budget + the 4K minimum, the prompt is not
\* flagged too large and keeps the full configured thinking budget; it is
\* flagged only when even the minimum cannot fit.
C23_ThinkingBeforeOutput ==
    tokenBudgets # NoBudget =>
        LET left == config.context_window - promptTokens
            thinking == config.thinking_budget_tokens
        IN  /\ (/\ left < thinking + config.desired_output_tokens
                /\ left >= thinking + MinimumOutputTokens)
                   => (/\ ~tokenBudgets.isPromptTooLarge
                       /\ tokenBudgets.thinkingBudget = thinking)
            /\ (config = DefaultConfig /\ tokenBudgets.isPromptTooLarge)
                   => promptTokens > MaxManuscriptTokens

C29_AllOrNothing ==
    /\ pc = "rejected" =>
           /\ written = <<>>
           /\ disk = {}
           /\ \A t \in ToolIds : cacheGetFiles(fileCache, t) = <<>>
    /\ pc \in {"resolved", "rejected"} =>
           \A i \in DOMAIN written :
               \E j \in DOMAIN returned.outputFiles : returned.outputFiles[j] = written[i]

\* the names of the steps logged for check c, in order
RECURSIVE stepNames(_, _)
stepNames(log, c) ==
    IF log = <<>> THEN <<>>
    ELSE IF Head(log).check = c THEN <<Head(log).step>> \o stepNames(Tail(log), c)
    ELSE stepNames(Tail(log), c)

AllSteps ==
    <<"countTokens(prompt)", "calculateTokenBudgets", "streamWithThinking",
      "countWords", "countTokens(response)", "removeMarkdown", "writeReport",
      "writeThinking">>

\* the steps of GenericTool: budget computed inline, no markup stripping
GenericSteps ==
    <<"countTokens(prompt)", "streamWithThinking", "countWords",
      "countTokens(response)", "writeReport", "writeThinking">>

withoutLast(seq) == SubSeq(seq, 1, Len(seq) - 1)

\* every report write of the log follows the response count of its check,
\* and a write is in progress only after a stream that ended normally
reportAfterStreamAndCount ==
    /\ \A k \in DOMAIN steps :
           steps[k].step = "writeReport" =>
               /\ \E j \in 1..(k - 1) : /\ steps[j].step = "countTokens(response)"
                                        /\ steps[j].check = steps[k].check
               /\ \E j \in 1..(k - 1) : /\ steps[j].step = "streamWithThinking"
                                        /\ steps[j].check = steps[k].check
    /\ pc \in {"writingReport", "writingThinking"} => exch = "Completed"
    /\ written # <<>> => \E k \in DOMAIN steps : steps[k].step = "writeReport"

\* C24 as claimed: in every successful check of a run the steps countTokens
\* (prompt), calculateTokenBudgets, streamWithThinking, word count and
\* countTokens on the visible text as received, markup stripping, write of
\* the report, write of the thinking file occur in this order, each exactly
\* once; no report is written unless the stream ended normally and the
\* second countTokens call succeeded.
C24_StepsInOrderOnce ==
    /\ pc = "resolved" =>
           \A c \in 1..Len(checkTypesOf(run)) : stepNames(steps, c) = AllSteps
    /\ reportAfterStreamAndCount

\* C24 amended: in every successful check of ConsistencyChecker and
\* TemplateTool the steps occur in the claimed order, each exactly once,
\* except that the thinking file is written only when thinking text was
\* received and skip_thinking is not set; GenericTool follows the same
\* order without a calculateTokenBudgets call and without markup
\* stripping; no report is written unless the stream ended normally and
\* the second countTokens call succeeded.
C24_StepsInOrder ==
    /\ pc = "resolved" =>
           LET expected == IF run.tool = "generic_tool" THEN GenericSteps ELSE AllSteps
           IN  /\ \A c \in 1..Len(checkTypesOf(run)) :
                      stepNames(steps, c) \in {expected, withoutLast(expected)}
               /\ stepNames(steps, checkIdx) = expected
                      <=> (thinkingContent # <<>> /\ ~run.skip_thinking)
    /\ reportAfterStreamAndCount

C24_Witness ==
    /\ pc = "resolved"
    /\ run.tool = "consistency_checker"
    /\ run.check_type = "all"
    /\ stepNames(steps, 1) = AllSteps
    /\ stepNames(steps, 4) = withoutLast(AllSteps)

\* C26: every successfully constructed configuration has all numeric
\* fields present and non-negative: the constructor rejects a settings
\* object in which a required numeric field is absent, null or negative.
C26_NumericFieldsValid ==
    client = "created" =>
        \A name \in numericSettings :
            /\ config[name] # Undefined
            /\ config[name] # Null
            /\ config[name] # NegativeNumber

\* C21: registry entries are replaced wholesale on re-initialization: after
\* an initializeToolSystem call returns, the registered tool ids are exactly
\* those this initialization registered; after it throws they are exactly
\* those registered before; never a mixture, never an id this
\* initialization did not register.
C21_RegistryReplacedWholesale ==
    lastCall.op = "initializeToolSystem" =>
        registeredIds = IF lastCall.threw THEN lastCall.before ELSE lastCall.registered

\* C27: after initializeToolSystem or reinitializeClaudeService returns,
\* every tool in the registry references one and the same adapter, the one
\* created by that call; no registered tool keeps an older adapter.
C27_OneAdapterForAllTools ==
    (lastCall # NoCall /\ ~lastCall.threw) =>
        \A instance \in registeredInstances(toolRegistry) :
            toolService[instance] = adapterCount

\* a reinitializeClaudeService call with settings that fail validation
reinitRejected ==
    /\ lastCall' # lastCall
    /\ lastCall'.op = "reinitializeClaudeService"
    /\ \E name \in DOMAIN lastCall'.given : lastCall'.given[name] = Undefined

\* C30: reinitializeClaudeService with settings that fail validation throws
\* before touching any tool: every registered tool keeps its adapter
\* reference and the registry is unchanged.
C30_RejectedReinitTouchesNothing ==
    [][reinitRejected =>
           /\ lastCall'.threw
           /\ toolService' = toolService
           /\ toolRegistry' = toolRegistry
           /\ adapterCount' = adapterCount
           /\ config' = config]_vars

C30_Witness ==
    /\ lastCall.op = "reinitializeClaudeService"
    /\ lastCall.threw
    /\ adapterCount = 2
    /\ Len(toolRegistry) = 2
    /\ \E instance \in registeredInstances(toolRegistry) : toolService[instance] = 1
    /\ \E instance \in registeredInstances(toolRegistry) : toolService[instance] = 2

\* the adapters that served the adapter calls of the run so far
servingAdapters == {steps[i].adapter : i \in DOMAIN steps} \ {0}

\* C28: within a single tool run, countTokens(prompt), calculateTokenBudgets,
\* streamWithThinking and countTokens(response) are all served by the same
\* adapter instance, even when reinitializeClaudeService is called while
\* the run is suspended at one of its awaits.
C28_OneAdapterPerRun ==
    Cardinality(servingAdapters) <= 1

\* the runs of tool id t so far, and the latest of them
runsOf(t) == {k \in DOMAIN runs : runs[k].tool = t}
latestRunOf(t) == CHOOSE k \in runsOf(t) : \A j \in runsOf(t) : j <= k

\* getFiles(t) holds paths of two runs at once
holdsTwoGenerations(t) ==
    \E i, j \in runsOf(t) :
        /\ i # j
        /\ \E p \in Range(cacheGetFiles(fileCache, t)) : p \in Range(runPaths(t, i))
        /\ \E p \in Range(cacheGetFiles(fileCache, t)) : p \in Range(runPaths(t, j))

\* C22: no locking serializes runs of one tool id, so when two runs of one
\* id interleave at their awaits, getFiles(id) can hold paths of both runs
\* or differ from the outputFiles of each; but when at most one run per
\* tool id is active at a time (also with runs of other ids under way),
\* each bucket holds exactly the paths of its own latest run.
C22_OneGenerationWhenSerialized ==
    \A t \in ToolIds :
        (runsOf(t) # {} /\ \A k \in runsOf(t) : runs[k].alone) =>
            /\ ~holdsTwoGenerations(t)
            /\ runs[latestRunOf(t)].pc = "resolved" =>
                   /\ runs[latestRunOf(t)].outputFiles # <<>>
                   /\ cacheGetFiles(fileCache, t) = runs[latestRunOf(t)].outputFiles

====
